---- MODULE Spec2Model ----
(***************************************************************************)
(* Model of distance.py: the FuzzyDict container (fuzzy dictionary lookup  *)
(* built on difflib.SequenceMatcher) and the main flow that resolves two   *)
(* place names to identifiers and queries the distance service.            *)
(*                                                                         *)
(* Text is a sequence of one-character strings.  A dictionary key is a     *)
(* record [kind, s]: kind "str" is a text key, kind "tuple" a tuple of     *)
(* characters (a sequence that is not text), kind "int" a number.  A       *)
(* similarity ratio is the exact fraction <<numerator, denominator>> of    *)
(* the float the code computes; cutoffs are fractions too, and comparisons *)
(* cross-multiply (the denominators are positive).                         *)
(***************************************************************************)
EXTENDS Integers, Sequences, FiniteSets, TLC

VARIABLES entries, cutoff, op, lookfor, result,
          pc, argv, sources, destinations, source, destination,
          queried, distance, output

fuzzyVars == <<entries, cutoff, op, lookfor, result>>
mainVars == <<pc, argv, sources, destinations, source, destination,
              queried, distance, output>>
vars == <<entries, cutoff, op, lookfor, result,
          pc, argv, sources, destinations, source, destination,
          queried, distance, output>>

----------------------------------------------------------------------------
(* Bounds of the model *)

\* longest lookup key, in characters
MaxLookLen == 3

\* most entries in one container
MaxEntries == 2

Alphabet == {"a", "b"}

Strings(n) == UNION {[1..k -> Alphabet] : k \in 0..n}

StrKey(s) == [kind |-> "str", s |-> s]
TupleKey(s) == [kind |-> "tuple", s |-> s]
NumberKey == [kind |-> "int", s |-> <<>>]

\* Python's None, as a key and as a value
NoKey == [kind |-> "None", s |-> <<>>]
NoValue == "None"

\* the canonical names a catalog may hold
CanonicalNames == {<<>>, <<"a">>, <<"b">>, <<"a", "b">>, <<"b", "a">>,
                   <<"a", "b", "a">>}
TextKeys == {StrKey(s) : s \in CanonicalNames}
NonTextKeys == {NumberKey, TupleKey(<<>>), TupleKey(<<"a", "b">>)}
Keys == TextKeys \cup NonTextKeys
Lookups == {StrKey(s) : s \in Strings(MaxLookLen)}

\* the cutoffs a caller may pass: the default .6, the ends of [0,1], and
\* values outside [0,1] (__init__ stores whatever it is given)
DefaultCutoff == <<3, 5>>
Cutoffs == {<<-1, 2>>, <<0, 1>>, DefaultCutoff, <<1, 1>>, <<3, 2>>}

RatGE(x, y) == x[1] * y[2] >= y[1] * x[2]
RatGT(x, y) == x[1] * y[2] > y[1] * x[2]

----------------------------------------------------------------------------
(* difflib.SequenceMatcher.ratio(), as used by FuzzyDict._search *)

\* length of the common run of a from i and b from j inside a[..ahi], b[..bhi]
RECURSIVE RunLen(_, _, _, _, _, _)
RunLen(a, b, i, j, ahi, bhi) ==
  IF i > ahi \/ j > bhi THEN 0
  ELSE IF a[i] # b[j] THEN 0
  ELSE 1 + RunLen(a, b, i + 1, j + 1, ahi, bhi)

\* find_longest_match: the longest matching block of a[alo..ahi] and
\* b[blo..bhi]; of the longest, the one starting earliest in a, and of
\* those, the one starting earliest in b
FindLongestMatch(a, b, alo, ahi, blo, bhi) ==
  LET Blocks == {[i |-> i, j |-> j, k |-> RunLen(a, b, i, j, ahi, bhi)] :
                   i \in alo..ahi, j \in blo..bhi}
      Best(m) == \A n \in Blocks :
                   \/ n.k < m.k
                   \/ n.k = m.k /\ (m.i < n.i \/ (m.i = n.i /\ m.j <= n.j))
  IN IF Blocks = {} THEN [i |-> alo, j |-> blo, k |-> 0]
     ELSE CHOOSE m \in Blocks : Best(m)

\* get_matching_blocks: the characters matched in total, the longest block
\* first and then the pieces left and right of it
RECURSIVE Matches(_, _, _, _, _, _)
Matches(a, b, alo, ahi, blo, bhi) ==
  LET m == FindLongestMatch(a, b, alo, ahi, blo, bhi)
  IN IF m.k = 0 THEN 0
     ELSE m.k
          + (IF alo < m.i /\ blo < m.j
               THEN Matches(a, b, alo, m.i - 1, blo, m.j - 1) ELSE 0)
          + (IF m.i + m.k <= ahi /\ m.j + m.k <= bhi
               THEN Matches(a, b, m.i + m.k, ahi, m.j + m.k, bhi) ELSE 0)

\* ratio: 2.0 * matches / (len(a) + len(b)), and 1.0 for two empty sequences
Ratio(a, b) ==
  LET length == Len(a) + Len(b)
  IN IF length = 0 THEN <<1, 1>>
     ELSE <<2 * Matches(a, b, 1, Len(a), 1, Len(b)), length>>

\* the ratio of every lookup text against every key's characters, computed
\* once
RatioOf == [p \in Strings(MaxLookLen) \X CanonicalNames |->
              Ratio(p[1], p[2])]

\* set_seq2(key) raises TypeError on a key that is no sequence
SetSeq2Raises(key) == key.kind \notin {"str", "tuple"}

\* ratio() raises TypeError when the key looked for is no sequence
RatioRaises(look) == look.kind \notin {"str", "tuple"}

----------------------------------------------------------------------------
(* class FuzzyDict *)

\* dict.__contains__ and dict.__getitem__ of the superclass
DictContains(es, key) == \E i \in 1..Len(es) : es[i].key = key
DictGetItem(es, key) == es[CHOOSE i \in 1..Len(es) : es[i].key = key].value

\* the tuple _search returns, with the number of entries the loop visited
SearchResult(cut, best, n) ==
  [matched |-> RatGE(best.ratio, cut), key |-> best.key,
   value |-> best.value, ratio |-> best.ratio, scanned |-> n]

\* "if ratio > best_ratio": a tie keeps the match found first
BetterOrEqual(ratio, best_ratio) == RatGE(ratio, best_ratio)
Better(ratio, best_ratio) == RatGT(ratio, best_ratio)

\* "if stop_on_first and ratio >= self.cutoff: break"
NeverStop(stop_on_first, ratio, cut) == FALSE
StopHere(stop_on_first, ratio, cut) == stop_on_first /\ RatGE(ratio, cut)

\* the loop of _search from entry i on, best being the best match so far
RECURSIVE Scan(_, _, _, _, _, _)
ScanBreakOnBadKey(es, cut, look, stop_on_first, i, best) ==
  IF i > Len(es) THEN SearchResult(cut, best, Len(es))
  ELSE IF SetSeq2Raises(es[i].key) THEN SearchResult(cut, best, i)
  ELSE IF RatioRaises(look) THEN SearchResult(cut, best, i)
  ELSE LET ratio == RatioOf[<<look.s, es[i].key.s>>]
           nbest == IF Better(ratio, best.ratio)
                      THEN [ratio |-> ratio, key |-> es[i].key,
                            value |-> es[i].value]
                      ELSE best
       IN IF StopHere(stop_on_first, ratio, cut)
            THEN SearchResult(cut, nbest, i)
            ELSE Scan(es, cut, look, stop_on_first, i + 1, nbest)

Scan(es, cut, look, stop_on_first, i, best) ==
  IF i > Len(es) THEN SearchResult(cut, best, Len(es))
  ELSE IF SetSeq2Raises(es[i].key)
         THEN Scan(es, cut, look, stop_on_first, i + 1, best)
  ELSE IF RatioRaises(look) THEN SearchResult(cut, best, i)
  ELSE LET ratio == RatioOf[<<look.s, es[i].key.s>>]
           nbest == IF Better(ratio, best.ratio)
                      THEN [ratio |-> ratio, key |-> es[i].key,
                            value |-> es[i].value]
                      ELSE best
       IN IF StopHere(stop_on_first, ratio, cut)
            THEN SearchResult(cut, nbest, i)
            ELSE Scan(es, cut, look, stop_on_first, i + 1, nbest)

\* _search without its first step, the exact lookup
SearchNoExact(es, cut, look, stop_on_first) ==
  Scan(es, cut, look, stop_on_first, 1,
       [ratio |-> <<0, 1>>, key |-> NoKey, value |-> NoValue])

\* FuzzyDict._search
Search(es, cut, look, stop_on_first) ==
  IF DictContains(es, look)
    THEN [matched |-> TRUE, key |-> look, value |-> DictGetItem(es, look),
          ratio |-> <<1, 1>>, scanned |-> 0]
    ELSE Scan(es, cut, look, stop_on_first, 1,
              [ratio |-> <<0, 1>>, key |-> NoKey, value |-> NoValue])

\* the containers a caller can construct: up to MaxEntries entries with
\* distinct keys, in the order the dictionary iterates over them
IdOf(i) == ToString(100 + i)
KeyOrders == UNION {{ks \in [1..n -> Keys] :
                       \A i, j \in 1..n : i # j => ks[i] # ks[j]} :
                    n \in 0..MaxEntries}
EntriesOf(ks) == [i \in 1..Len(ks) |-> [key |-> ks[i], value |-> IdOf(i)]]

NoResult == [matched |-> FALSE, key |-> NoKey, value |-> NoValue,
             ratio |-> <<0, 1>>, scanned |-> 0]

\* the main flow is not running
MainIdle ==
  /\ pc = "idle" /\ argv = <<>> /\ sources = <<>> /\ destinations = <<>>
  /\ source = <<>> /\ destination = <<>>
  /\ queried = <<>> /\ distance = "" /\ output = "none"

\* FuzzyDict.__init__
Init ==
  /\ \E ks \in KeyOrders : entries = EntriesOf(ks)
  /\ cutoff \in Cutoffs
  /\ op = "none" /\ lookfor = NoKey /\ result = NoResult
  /\ MainIdle

\* FuzzyDict.__contains__
Contains(item) ==
  /\ pc = "idle" /\ op = "none"
  /\ op' = "contains"
  /\ lookfor' = item
  /\ result' = Search(entries, cutoff, item, TRUE)
  /\ UNCHANGED <<entries, cutoff>>
  /\ UNCHANGED mainVars

\* __getitem__ storing a fuzzy match under the key looked for
GetItemCaching(look) ==
  /\ pc = "idle" /\ op = "none"
  /\ op' = "get"
  /\ lookfor' = look
  /\ result' = Search(entries, cutoff, look, FALSE)
  /\ entries' = IF result'.matched /\ result'.key # look
                  THEN Append(entries, [key |-> look, value |-> result'.value])
                  ELSE entries
  /\ UNCHANGED cutoff
  /\ UNCHANGED mainVars

\* FuzzyDict.__getitem__: it returns result.value when result.matched, and
\* raises KeyError otherwise
GetItem(look) ==
  /\ pc = "idle" /\ op = "none"
  /\ op' = "get"
  /\ lookfor' = look
  /\ result' = Search(entries, cutoff, look, FALSE)
  /\ UNCHANGED <<entries, cutoff>>
  /\ UNCHANGED mainVars

\* the call is over: the tuple _search returned is a local of the call and
\* is gone, the container is ready for the next call
Return ==
  /\ pc = "idle" /\ op # "none"
  /\ op' = "none" /\ lookfor' = NoKey /\ result' = NoResult
  /\ UNCHANGED <<entries, cutoff>>
  /\ UNCHANGED mainVars

Next ==
  \/ \E item \in Lookups : Contains(item)
  \/ \E look \in Lookups : GetItem(look)
  \/ Return

Spec == Init /\ [][Next]_vars

----------------------------------------------------------------------------
(* The main flow, lines 200-220 *)

\* the names a user may give on the command line
ArgNames == {<<"a">>, <<"a", "b">>, <<"b", "b">>}
ArgLists == {<<>>} \cup {<<x>> : x \in ArgNames} \cup (ArgNames \X ArgNames)

\* the place names and the identifiers (option values) the home page may
\* list; a site may use a place's name as its identifier
PlaceNames == {<<"a">>, <<"b">>}
Identifiers == {<<"a">>, <<"b">>, <<"1">>}
PlaceLists ==
  UNION {{ps \in [1..n -> PlaceNames \X Identifiers] :
            \A i, j \in 1..n : i # j => ps[i][1] # ps[j][1]} : n \in 0..2}
CatalogOf(ps) ==
  [i \in 1..Len(ps) |-> [key |-> StrKey(ps[i][1]), value |-> ps[i][2]]]
Catalogs == {CatalogOf(ps) : ps \in PlaceLists}

\* what parse_result_page may return: '' when the page shows no distance
Distances == {"", "1400"}

\* FuzzyDict(items): a new dictionary updated from items; the order in
\* which it iterates over the copied entries is the dictionary's own
SameEntries(es, fs) ==
  /\ Len(fs) = Len(es)
  /\ \A i \in 1..Len(es) : \E j \in 1..Len(fs) : fs[j] = es[i]
FuzzyDictOf(es) == {fs \in Catalogs : SameEntries(es, fs)}

MainInit ==
  /\ pc = "start"
  /\ argv \in ArgLists
  /\ sources = <<>> /\ destinations = <<>>
  /\ source = <<>> /\ destination = <<>>
  /\ queried = <<>> /\ distance = "" /\ output = "none"
  /\ entries = <<>> /\ cutoff = DefaultCutoff
  /\ op = "none" /\ lookfor = NoKey /\ result = NoResult

\* lines 201-206: fewer than two names print the usage and exit
CheckArgs ==
  /\ pc = "start"
  /\ IF Len(argv) < 2
       THEN /\ output' = "usage" /\ pc' = "exit1"
            /\ UNCHANGED <<source, destination>>
       ELSE /\ source' = argv[1] /\ destination' = argv[2]
            /\ pc' = "home" /\ UNCHANGED output
  /\ UNCHANGED <<argv, sources, destinations, queried, distance>>
  /\ UNCHANGED fuzzyVars

\* lines 208-212: the home page cannot be opened
HomePageError ==
  /\ pc = "home"
  /\ output' = "error" /\ pc' = "exit1"
  /\ UNCHANGED <<argv, sources, destinations, source, destination,
                 queried, distance>>
  /\ UNCHANGED fuzzyVars

\* lines 208-214, get_supported_locations: the home page lists the
\* supported sources and destinations
GetSupportedLocations(srcs, dsts) ==
  /\ pc = "home"
  /\ sources' = srcs /\ destinations' = dsts
  /\ pc' = "resolve"
  /\ UNCHANGED <<argv, source, destination, queried, distance, output>>
  /\ UNCHANGED fuzzyVars

\* line 215, get_source_destination_ids: both names are looked up in
\* FuzzyDicts of the default cutoff; a lookup that matches nothing raises
\* the KeyError of FuzzyDict.__getitem__, which nothing catches
GetSourceDestinationIds ==
  /\ pc = "resolve"
  /\ \E fuzzy_sources \in FuzzyDictOf(sources),
        fuzzy_destinations \in FuzzyDictOf(destinations) :
       LET s == Search(fuzzy_sources, DefaultCutoff, StrKey(source), FALSE)
           d == Search(fuzzy_destinations, DefaultCutoff,
                       StrKey(destination), FALSE)
       IN IF s.matched /\ d.matched
            THEN /\ source' = s.value /\ destination' = d.value
                 /\ pc' = "distance"
            ELSE /\ pc' = "NotFound"
                 /\ UNCHANGED <<source, destination>>
  /\ UNCHANGED <<argv, sources, destinations, queried, distance, output>>
  /\ UNCHANGED fuzzyVars

\* line 216: sources[source] and destinations[destination] are lookups in
\* the plain dictionaries by what the fuzzy lookups returned; a missing key
\* raises KeyError, which nothing catches
DictKeyError ==
  /\ pc = "distance"
  /\ \/ ~DictContains(sources, StrKey(source))
     \/ ~DictContains(destinations, StrKey(destination))
  /\ pc' = "KeyError"
  /\ UNCHANGED <<argv, sources, destinations, source, destination,
                 queried, distance, output>>
  /\ UNCHANGED fuzzyVars

\* line 216 and get_distance: the service is asked for the page of
\* sources[source] and destinations[destination]; it answers with a page,
\* of which parse_result_page returns the distance, or with a URLError
GetDistance ==
  /\ pc = "distance"
  /\ DictContains(sources, StrKey(source))
  /\ DictContains(destinations, StrKey(destination))
  /\ queried' = <<DictGetItem(sources, StrKey(source)),
                  DictGetItem(destinations, StrKey(destination))>>
  /\ \/ /\ distance' \in Distances /\ pc' = "print" /\ UNCHANGED output
     \/ /\ output' = "error" /\ pc' = "exit1" /\ UNCHANGED distance
  /\ UNCHANGED <<argv, sources, destinations, source, destination>>
  /\ UNCHANGED fuzzyVars

\* lines 217-220
PrintDistance ==
  /\ pc = "print"
  /\ output' = IF distance # "" THEN "distance" ELSE "no matching entry"
  /\ pc' = "done"
  /\ UNCHANGED <<argv, sources, destinations, source, destination,
                 queried, distance>>
  /\ UNCHANGED fuzzyVars

MainNext ==
  \/ CheckArgs
  \/ HomePageError
  \/ \E srcs \in Catalogs, dsts \in Catalogs :
       GetSupportedLocations(srcs, dsts)
  \/ GetSourceDestinationIds
  \/ DictKeyError
  \/ GetDistance
  \/ PrintDistance

MainSpec == MainInit /\ [][MainNext]_vars

----------------------------------------------------------------------------
(* The terms of the properties, stated over the container and lookup key, *)
(* independently of the scan                                               *)

\* entry i can be compared with the key looked for
Comparable(i) == entries[i].key.kind \in {"str", "tuple"}
ComparableEntries == {i \in 1..Len(entries) : Comparable(i)}

\* the similarity of entry i to the key looked for
Similarity(i) == RatioOf[<<lookfor.s, entries[i].key.s>>]

\* the first entry in scan order among those of the highest similarity
IsFirstBest(i) ==
  /\ i \in ComparableEntries
  /\ \A j \in ComparableEntries :
       /\ j < i => RatGT(Similarity(i), Similarity(j))
       /\ j > i => RatGE(Similarity(i), Similarity(j))

\* the first entry in scan order whose similarity reaches the cutoff
IsFirstSufficient(i) ==
  /\ i \in ComparableEntries
  /\ RatGE(Similarity(i), cutoff)
  /\ \A j \in ComparableEntries : j < i => ~RatGE(Similarity(j), cutoff)

ExactKey == DictContains(entries, lookfor)
CutoffInUnitInterval == RatGE(cutoff, <<0, 1>>) /\ RatGE(<<1, 1>>, cutoff)
RatEQ(x, y) == x[1] * y[2] = y[1] * x[2]
IsOne(r) == r[1] = r[2]
IsZero(r) == r[1] = 0

\* C1: for a lookup key that is no exact canonical name, get returns the
\* value of the first entry of the highest similarity when that similarity
\* is at least the cutoff, and fails with NotFound otherwise.
C1_GetReturnsBestOrFails ==
  (op = "get" /\ ~ExactKey) =>
    IF \E i \in ComparableEntries :
         IsFirstBest(i) /\ RatGE(Similarity(i), cutoff)
      THEN /\ result.matched
           /\ \E i \in ComparableEntries :
                IsFirstBest(i) /\ result.value = entries[i].value
      ELSE ~result.matched

\* C2: for a cutoff in [0,1], contains is true exactly when the key is an
\* exact entry or some entry's canonical name has similarity >= cutoff.
C2_ContainsIffExactOrSimilar ==
  (op = "contains" /\ CutoffInUnitInterval) =>
    (result.matched <=>
       (ExactKey \/ \E i \in ComparableEntries : RatGE(Similarity(i), cutoff)))

\* C3: get of a key present exactly as a canonical name returns the value
\* stored under that key, with ratio 1, whatever the cutoff and the other
\* entries, and visits no entry in a fuzzy scan.
C3_ExactGet ==
  (op = "get" /\ ExactKey) =>
    /\ result.matched
    /\ result.key = lookfor
    /\ \E i \in 1..Len(entries) :
         entries[i].key = lookfor /\ result.value = entries[i].value
    /\ IsOne(result.ratio)
    /\ result.scanned = 0

\* an exact get under a cutoff no ratio reaches, behind an entry (a tuple of
\* the same characters) that the scan would rate 1 as well
C3_Witness ==
  /\ op = "get" /\ ExactKey /\ Len(entries) = 2
  /\ entries[1].key = TupleKey(<<"a", "b">>)
  /\ entries[2].key = lookfor
  /\ cutoff = <<3, 2>>
  /\ result.value = entries[2].value

Outcome(o, r) ==
  IF o = "contains" THEN <<r.matched>>
  ELSE <<r.matched, r.key, r.value, r.ratio>>

WithoutNonText(es) == SelectSeq(es, LAMBDA e : e.key.kind = "str")
WithoutNonSequences(es) ==
  SelectSeq(es, LAMBDA e : e.key.kind \in {"str", "tuple"})

C7_ContainsShortCircuits ==
  /\ (op = "contains" /\ ~ExactKey) =>
       IF \E i \in ComparableEntries : RatGE(Similarity(i), cutoff)
         THEN /\ result.matched
              /\ \E i \in ComparableEntries :
                   IsFirstSufficient(i) /\ result.scanned = i
         ELSE result.scanned = Len(entries)
  /\ (op = "get" /\ ~ExactKey) => result.scanned = Len(entries)

\* contains stopped at the first of two entries although the second one
\* matches better
C7_Witness ==
  /\ op = "contains" /\ ~ExactKey /\ Len(entries) = 2
  /\ Comparable(1) /\ Comparable(2)
  /\ result.scanned = 1 /\ result.matched
  /\ RatGT(Similarity(2), Similarity(1))
  /\ cutoff = DefaultCutoff

\* C8: no contains or get call, successful or failing, changes the
\* container's entries or its cutoff.
C8_LookupsLeaveContainerUnchanged ==
  [][entries' = entries /\ cutoff' = cutoff]_vars

\* a get has failed on a container of two entries
C8_Witness ==
  op = "get" /\ ~result.matched /\ Len(entries) = 2 /\ ~ExactKey

\* C10: for a cutoff in [0,1], a get that returns has matched a key of the
\* container and returns the value stored under that key.
C10_GetReturnsStoredValue ==
  (op = "get" /\ result.matched /\ CutoffInUnitInterval) =>
    \E i \in 1..Len(entries) :
      entries[i].key = result.key /\ entries[i].value = result.value

\* C6: the cutoff of a container is in [0,1] in every reachable state.
C6_CutoffInUnitInterval == CutoffInUnitInterval

\* C9: in the main flow, when both fuzzy lookups succeed, the distance
\* service is asked with exactly the two identifiers the fuzzy lookups
\* returned (which source and destination hold from then on), and no
\* further lookup is applied to them (so none can fail).
C9_ServiceGetsResolvedIds ==
  /\ pc # "KeyError"
  /\ queried # <<>> => queried = <<source, destination>>

====
